---- MODULE Spec2Model ----
(***************************************************************************)
(* Model of Extension/src/LanguageServer/extension.ts: the lazy activation *)
(* gate, the event router, the command dispatcher, the snippets toggle and *)
(* the self-update version gate.                                           *)
(*                                                                         *)
(* The host is single threaded: a handler runs to completion before the    *)
(* next one starts.  Every handler is therefore one action.  A handler is  *)
(* written as an operator from a state record to a state record, so that   *)
(* handlers can call each other the way the code does.  The variable       *)
(* `trace` holds, in order, the effects of the most recent handler; its    *)
(* first entry names the handler and its argument.                         *)
(***************************************************************************)
EXTENDS Integers, Sequences, FiniteSets, TLC

VARIABLES
    persisted,               \* stored value of the workspace key "activatedPreviously"
    activatedPreviously,     \* the PersistentWorkspaceState object (line 37)
    realActivationOccurred,  \* line 35
    tempCommands,            \* line 36
    clients,                 \* line 28
    ui,                      \* line 30
    activeDocument,          \* line 29
    disposables,             \* line 31
    languageConfigurations,  \* line 32
    intervalTimer,           \* line 33
    workspaceFolders,        \* vscode.workspace.workspaceFolders
    configMarker,            \* some folder holds .vscode/c_cpp_properties.json
    textDocuments,           \* vscode.workspace.textDocuments
    activeTextEditor,        \* vscode.window.activeTextEditor (its document)
    live,                    \* host side: live subscriptions per resource
    liveTimers,              \* host side: running interval timers
    activateCalls,           \* number of activate() invocations so far
    realActivations,         \* number of realActivation() runs so far
    timersStarted,           \* number of setInterval(onInterval, 2500) calls so far
    deactivated,             \* deactivate() has been called
    trace,                   \* effects of the most recent handler, in order
    packageJson,             \* the manifest read by util.getRawPackageJson()
    packageJson0,            \* the manifest before the first toggle
    toggles,                 \* number of toggle-snippets invocations so far
    saveMessageShown,        \* line 171
    crash,                   \* prevCrashFile (line 27), process.platform and the host
                             \* side of crash reporting: pending fs.stat callbacks,
                             \* watchers, and per accepted file its timer and reads
    update,                  \* inputs and outcome of the last self-update check
    switch                   \* the pending or last switch-header-source continuation

vars == <<persisted, activatedPreviously, realActivationOccurred, tempCommands,
          clients, ui, activeDocument, disposables, languageConfigurations,
          intervalTimer, workspaceFolders, configMarker, textDocuments,
          activeTextEditor, live, liveTimers, activateCalls, realActivations,
          timersStarted, deactivated, trace, packageJson, packageJson0,
          toggles, saveMessageShown, crash, update, switch>>

(***************************************************************************)
(* Bounds of the model.                                                    *)
(***************************************************************************)
MaxActivate == 2

MaxToggles == 2

MaxCategories == 2

MaxVersionLen == 2

MaxRedirects == 1

MaxVisible == 2

MaxCrashFiles == 2

(***************************************************************************)
(* Values.                                                                 *)
(***************************************************************************)
Undefined == "undefined"

NoEditor == "no editor"

Documents == {"a.cpp", "b.c", "r.md"}

FolderNames == {"f1", "f2"}

languageId(d) ==
    CASE d = "a.cpp" -> "cpp"
      [] d = "b.c" -> "c"
      [] OTHER -> "markdown"

IsCOrCpp(d) == languageId(d) = "cpp" \/ languageId(d) = "c"

CommandIds ==
    {"C_Cpp.Navigate", "C_Cpp.GoToDeclaration", "C_Cpp.PeekDeclaration",
     "C_Cpp.SwitchHeaderSource", "C_Cpp.ResetDatabase", "C_Cpp.ConfigurationSelect",
     "C_Cpp.ConfigurationProviderSelect", "C_Cpp.ConfigurationEdit",
     "C_Cpp.AddToIncludePath", "C_Cpp.ToggleErrorSquiggles", "C_Cpp.ToggleSnippets",
     "C_Cpp.ToggleIncludeFallback", "C_Cpp.ToggleDimInactiveRegions",
     "C_Cpp.ShowReleaseNotes", "C_Cpp.PauseParsing", "C_Cpp.ResumeParsing",
     "C_Cpp.ShowParsingCommands", "C_Cpp.TakeSurvey"}

CommandOrder ==
    <<"C_Cpp.Navigate", "C_Cpp.GoToDeclaration", "C_Cpp.PeekDeclaration",
      "C_Cpp.SwitchHeaderSource", "C_Cpp.ResetDatabase", "C_Cpp.ConfigurationSelect",
      "C_Cpp.ConfigurationProviderSelect", "C_Cpp.ConfigurationEdit",
      "C_Cpp.AddToIncludePath", "C_Cpp.ToggleErrorSquiggles", "C_Cpp.ToggleSnippets",
      "C_Cpp.ToggleIncludeFallback", "C_Cpp.ToggleDimInactiveRegions",
      "C_Cpp.ShowReleaseNotes", "C_Cpp.PauseParsing", "C_Cpp.ResumeParsing",
      "C_Cpp.ShowParsingCommands", "C_Cpp.TakeSurvey">>

ListenerOrder ==
    <<"onDidChangeConfiguration", "onDidSaveTextDocument", "onDidChangeActiveTextEditor",
      "onDidChangeTextEditorSelection", "onDidChangeVisibleTextEditors">>

Watcher == "onDidOpenTextDocument"

LanguageConfigOrder == <<"setLanguageConfiguration:c", "setLanguageConfiguration:cpp">>

Range(q) == {q[i] : i \in 1..Len(q)}

Resources == CommandIds \cup Range(ListenerOrder) \cup {Watcher} \cup Range(LanguageConfigOrder)

(***************************************************************************)
(* The state record handlers work on, and the trace.                       *)
(***************************************************************************)
St ==
    [persisted |-> persisted, activatedPreviously |-> activatedPreviously,
     realActivationOccurred |-> realActivationOccurred, tempCommands |-> tempCommands,
     clients |-> clients, ui |-> ui, activeDocument |-> activeDocument,
     disposables |-> disposables, languageConfigurations |-> languageConfigurations,
     intervalTimer |-> intervalTimer, workspaceFolders |-> workspaceFolders,
     configMarker |-> configMarker, textDocuments |-> textDocuments,
     activeTextEditor |-> activeTextEditor, live |-> live, liveTimers |-> liveTimers,
     activateCalls |-> activateCalls, realActivations |-> realActivations,
     timersStarted |-> timersStarted, deactivated |-> deactivated, trace |-> trace,
     packageJson |-> packageJson, packageJson0 |-> packageJson0, toggles |-> toggles,
     saveMessageShown |-> saveMessageShown, crash |-> crash]

Apply(s) ==
    /\ persisted' = s.persisted
    /\ activatedPreviously' = s.activatedPreviously
    /\ realActivationOccurred' = s.realActivationOccurred
    /\ tempCommands' = s.tempCommands
    /\ clients' = s.clients
    /\ ui' = s.ui
    /\ activeDocument' = s.activeDocument
    /\ disposables' = s.disposables
    /\ languageConfigurations' = s.languageConfigurations
    /\ intervalTimer' = s.intervalTimer
    /\ workspaceFolders' = s.workspaceFolders
    /\ configMarker' = s.configMarker
    /\ textDocuments' = s.textDocuments
    /\ activeTextEditor' = s.activeTextEditor
    /\ live' = s.live
    /\ liveTimers' = s.liveTimers
    /\ activateCalls' = s.activateCalls
    /\ realActivations' = s.realActivations
    /\ timersStarted' = s.timersStarted
    /\ deactivated' = s.deactivated
    /\ trace' = s.trace
    /\ packageJson' = s.packageJson
    /\ packageJson0' = s.packageJson0
    /\ toggles' = s.toggles
    /\ saveMessageShown' = s.saveMessageShown
    /\ crash' = s.crash

Log(s, what, arg) == [s EXCEPT !.trace = Append(@, <<what, arg>>)]

\* An uncaught TypeError (a property read on undefined) ends the handler:
\* every later step of the handler is skipped.
Threw(s) == Len(s.trace) > 0 /\ s.trace[Len(s.trace)][1] = "TypeError"

Throw(s, what) == Log(s, "TypeError", what)

Has(t, what) == \E i \in 1..Len(t) : t[i][1] = what

First(t, what) == CHOOSE i \in 1..Len(t) : t[i][1] = what /\ \A j \in 1..(i - 1) : t[j][1] # what

(***************************************************************************)
(* With(v, F) is F(v) with v evaluated once: handlers use their            *)
(* intermediate states several times.                                      *)
(***************************************************************************)
With(v, F(_)) == CHOOSE r \in {F(x) : x \in {v}} : TRUE

(***************************************************************************)
(* Subscriptions: a Disposable is named by the resource it releases.       *)
(***************************************************************************)
Occurrences(q, r) == Cardinality({i \in 1..Len(q) : q[i] = r})

\* q.forEach(d => d.dispose())
DisposeAll(s, q) ==
    [s EXCEPT !.live = [r \in Resources |->
                           IF @[r] > Occurrences(q, r) THEN @[r] - Occurrences(q, r) ELSE 0],
              !.trace = @ \o [i \in 1..Len(q) |-> <<"dispose", q[i]>>]]

\* disposables.push(subscribe(...)) for every resource of q, in order
PushDisposables(s, q) ==
    [s EXCEPT !.live = [r \in Resources |-> @[r] + Occurrences(q, r)],
              !.disposables = @ \o q]

Bool(b) == IF b THEN "true" ELSE "false"

(***************************************************************************)
(* ClientCollection (clientCollection.ts): one client per workspace        *)
(* folder, keyed by folder name, or a single client when no folder is      *)
(* open; the first one starts active, and the active designation moves to  *)
(* the client owning the document on activeDocumentChanged.                *)
(***************************************************************************)
DocumentFolder(d) == IF d = "b.c" THEN "f2" ELSE "f1"

NoClients == [Names |-> {}, ActiveClient |-> Undefined]

NewClientCollection(folders) ==
    IF folders = <<>>
    THEN [Names |-> {"untitled"}, ActiveClient |-> "untitled"]
    ELSE [Names |-> Range(folders), ActiveClient |-> folders[1]]

Count(c) == Cardinality(c.Names)

ActiveDocumentChanged(c, d) ==
    IF DocumentFolder(d) \in c.Names THEN [c EXCEPT !.ActiveClient = DocumentFolder(d)] ELSE c

(***************************************************************************)
(* onDidChangeActiveTextEditor, lines 183-199.                             *)
(***************************************************************************)
\* Mutant of OnDidChangeActiveTextEditor: the tracker is not cleared when the
\* new active editor shows no c/cpp document.
OnDidChangeActiveTextEditor_KeepsTracker(s, editor) ==
    LET NotifyUi(v) ==
            IF Threw(v) THEN v
            ELSE IF v.ui = Undefined THEN Throw(v, "ui.activeDocumentChanged")
            ELSE Log(v, "ui.activeDocumentChanged", "")
        Body(v) ==
            IF Threw(v) THEN v
            ELSE IF v.clients = NoClients
            THEN Log(Log(v, "onDidChangeActiveTextEditor", editor), "assert failed", "clients")
            ELSE IF v.activeTextEditor = NoEditor \/ ~IsCOrCpp(v.activeTextEditor)
            THEN NotifyUi([v EXCEPT !.trace = @ \o << <<"onDidChangeActiveTextEditor", editor>>,
                                                      <<"activeDocument :=", "">> >>])
            ELSE IF editor = NoEditor
            THEN Throw(Log(v, "onDidChangeActiveTextEditor", editor), "editor.document")
            ELSE NotifyUi([v EXCEPT !.activeDocument = editor,
                                    !.clients = ActiveDocumentChanged(@, editor),
                                    !.trace = @ \o << <<"onDidChangeActiveTextEditor", editor>>,
                                                      <<"activeDocument :=", editor>>,
                                                      <<"clients.activeDocumentChanged", editor>>,
                                                      <<"ActiveClient.selectionChanged", editor>> >>])
    IN  With(s, Body)

OnDidChangeActiveTextEditor(s, editor) ==
    LET NotifyUi(v) ==
            IF Threw(v) THEN v
            ELSE IF v.ui = Undefined THEN Throw(v, "ui.activeDocumentChanged")
            ELSE Log(v, "ui.activeDocumentChanged", "")
        Body(v) ==
            IF Threw(v) THEN v
            ELSE IF v.clients = NoClients
            THEN Log(Log(v, "onDidChangeActiveTextEditor", editor), "assert failed", "clients")
            ELSE IF v.activeTextEditor = NoEditor \/ ~IsCOrCpp(v.activeTextEditor)
            THEN NotifyUi([v EXCEPT !.activeDocument = "",
                                    !.trace = @ \o << <<"onDidChangeActiveTextEditor", editor>>,
                                                      <<"activeDocument :=", "">> >>])
            ELSE IF editor = NoEditor
            THEN Throw(Log(v, "onDidChangeActiveTextEditor", editor), "editor.document")
            ELSE NotifyUi([v EXCEPT !.activeDocument = editor,
                                    !.clients = ActiveDocumentChanged(@, editor),
                                    !.trace = @ \o << <<"onDidChangeActiveTextEditor", editor>>,
                                                      <<"activeDocument :=", editor>>,
                                                      <<"clients.activeDocumentChanged", editor>>,
                                                      <<"ActiveClient.selectionChanged", editor>> >>])
    IN  With(s, Body)

(***************************************************************************)
(* updateLanguageConfigurations, lines 140-146.                            *)
(***************************************************************************)
UpdateLanguageConfigurations(s) ==
    LET Push(v) ==
            IF v.clients = NoClients THEN Throw(v, "clients.ActiveClient")
            ELSE [v EXCEPT !.live = [r \in Resources |->
                                        @[r] + Occurrences(LanguageConfigOrder, r)],
                           !.languageConfigurations = @ \o LanguageConfigOrder]
        Body(v) ==
            IF Threw(v) THEN v
            ELSE With([DisposeAll(Log(v, "updateLanguageConfigurations", ""),
                                  v.languageConfigurations)
                          EXCEPT !.languageConfigurations = <<>>],
                      Push)
    IN  With(s, Body)

(***************************************************************************)
(* reportMacCrashes, lines 606-649: the synchronous part.  On macOS the    *)
(* dedupe name is reset and fs.stat is asked about the crash folder; its   *)
(* callback runs later.                                                    *)
(***************************************************************************)
ReportMacCrashes(s) ==
    IF s.crash.platform = "darwin"
    THEN [s EXCEPT !.crash.prevCrashFile = "",
                   !.crash.stats = @ + 1,
                   !.trace = @ \o << <<"reportMacCrashes", "">>, <<"fs.stat", "crashFolder">> >>]
    ELSE Log(s, "reportMacCrashes", "")

(***************************************************************************)
(* realActivation, lines 108-138.                                          *)
(***************************************************************************)
\* Mutant of RealActivation: the synthesized active-editor-changed call is
\* made before the registry and the UI are constructed.
RealActivation_SynthesizesFirst(s) ==
    LET StartTimer(v) ==
            IF Threw(v) THEN v
            ELSE [ReportMacCrashes(v)
                     EXCEPT !.timersStarted = @ + 1,
                            !.intervalTimer = v.timersStarted + 1,
                            !.liveTimers = @ \cup {v.timersStarted + 1},
                            !.trace = Append(@, <<"setInterval", "onInterval">>)]
        Subscribe(v) ==
            IF Threw(v) THEN v
            ELSE With(UpdateLanguageConfigurations(
                          PushDisposables(Log(v, "onRegisterCustomConfigurationProvider", ""),
                                          ListenerOrder)),
                      StartTimer)
        Construct(v) ==
            [v EXCEPT !.realActivationOccurred = TRUE,
                      !.realActivations = @ + 1,
                      !.clients = NewClientCollection(v.workspaceFolders),
                      !.ui = "ui",
                      !.trace = @ \o << <<"realActivation", "">>,
                                        <<"new ClientCollection", "">>,
                                        <<"getUI", "">> >>]
        Body(v) ==
            IF Threw(v) THEN v
            ELSE With(IF v.textDocuments # {}
                      THEN Construct(OnDidChangeActiveTextEditor(v, v.activeTextEditor))
                      ELSE Construct(v),
                      Subscribe)
    IN  With(s, Body)

RealActivation(s) ==
    LET StartTimer(v) ==
            IF Threw(v) THEN v
            ELSE [ReportMacCrashes(v)
                     EXCEPT !.timersStarted = @ + 1,
                            !.intervalTimer = v.timersStarted + 1,
                            !.liveTimers = @ \cup {v.timersStarted + 1},
                            !.trace = Append(@, <<"setInterval", "onInterval">>)]
        Subscribe(v) ==
            IF Threw(v) THEN v
            ELSE With(UpdateLanguageConfigurations(
                          PushDisposables(Log(v, "onRegisterCustomConfigurationProvider", ""),
                                          ListenerOrder)),
                      StartTimer)
        Construct(v) ==
            [v EXCEPT !.realActivationOccurred = TRUE,
                      !.realActivations = @ + 1,
                      !.clients = NewClientCollection(v.workspaceFolders),
                      !.ui = "ui",
                      !.trace = @ \o << <<"realActivation", "">>,
                                        <<"new ClientCollection", "">>,
                                        <<"getUI", "">> >>]
        Body(v) ==
            IF Threw(v) THEN v
            ELSE With(IF v.textDocuments # {}
                      THEN OnDidChangeActiveTextEditor(Construct(v), v.activeTextEditor)
                      ELSE Construct(v),
                      Subscribe)
    IN  With(s, Body)

(***************************************************************************)
(* onActivationEvent, lines 92-106.                                        *)
(***************************************************************************)
\* Mutant of OnActivationEvent: the watchers are dropped but full activation
\* is not run.
OnActivationEvent_NoActivation(s) ==
    LET Persist(v) ==
            IF v.activatedPreviously = Undefined
            THEN Throw(v, "activatedPreviously.Value")
            ELSE Log([v EXCEPT !.persisted = TRUE], "activatedPreviously :=", "true")
        Body(v) ==
            IF Threw(v) THEN v
            ELSE IF Len(v.tempCommands) = 0 THEN Log(v, "onActivationEvent", "")
            ELSE With([DisposeAll(Log(v, "onActivationEvent", ""), v.tempCommands)
                          EXCEPT !.tempCommands = <<>>],
                      Persist)
    IN  With(s, Body)

\* Mutant of OnActivationEvent: the write of the persisted flag at the end is
\* missing.
OnActivationEvent_NeverPersists(s) ==
    LET Activation(v) == IF ~v.realActivationOccurred THEN RealActivation(v) ELSE v
        Body(v) ==
            IF Threw(v) THEN v
            ELSE IF Len(v.tempCommands) = 0 THEN Log(v, "onActivationEvent", "")
            ELSE With([DisposeAll(Log(v, "onActivationEvent", ""), v.tempCommands)
                          EXCEPT !.tempCommands = <<>>],
                      Activation)
    IN  With(s, Body)

\* Mutant of OnActivationEvent: full activation runs before the watchers are
\* disposed.
OnActivationEvent_ActivatesFirst(s) ==
    LET Persist(v) ==
            IF Threw(v) THEN v
            ELSE IF v.activatedPreviously = Undefined
            THEN Throw(v, "activatedPreviously.Value")
            ELSE Log([v EXCEPT !.persisted = TRUE], "activatedPreviously :=", "true")
        Activation(v) == IF ~v.realActivationOccurred THEN RealActivation(v) ELSE v
        Dispose(v) ==
            IF Threw(v) THEN v
            ELSE [DisposeAll(v, v.tempCommands) EXCEPT !.tempCommands = <<>>]
        Body(v) ==
            IF Threw(v) THEN v
            ELSE IF Len(v.tempCommands) = 0 THEN Log(v, "onActivationEvent", "")
            ELSE With(With(With(Log(v, "onActivationEvent", ""), Activation), Dispose),
                      Persist)
    IN  With(s, Body)

\* Mutant of OnActivationEvent: the flag is written only when this call ran
\* full activation.
OnActivationEvent_PersistsOnlyOnActivation(s) ==
    LET Persist(v) ==
            IF Threw(v) THEN v
            ELSE IF v.activatedPreviously = Undefined
            THEN Throw(v, "activatedPreviously.Value")
            ELSE Log([v EXCEPT !.persisted = TRUE], "activatedPreviously :=", "true")
        Activation(v) ==
            IF ~v.realActivationOccurred THEN With(RealActivation(v), Persist) ELSE v
        Body(v) ==
            IF Threw(v) THEN v
            ELSE IF Len(v.tempCommands) = 0 THEN Log(v, "onActivationEvent", "")
            ELSE With([DisposeAll(Log(v, "onActivationEvent", ""), v.tempCommands)
                          EXCEPT !.tempCommands = <<>>],
                      Activation)
    IN  With(s, Body)

OnActivationEvent(s) ==
    LET Persist(v) ==
            IF Threw(v) THEN v
            ELSE IF v.activatedPreviously = Undefined
            THEN Throw(v, "activatedPreviously.Value")
            ELSE Log([v EXCEPT !.persisted = TRUE], "activatedPreviously :=", "true")
        Activation(v) == IF ~v.realActivationOccurred THEN RealActivation(v) ELSE v
        Body(v) ==
            IF Threw(v) THEN v
            ELSE IF Len(v.tempCommands) = 0 THEN Log(v, "onActivationEvent", "")
            ELSE With(With([DisposeAll(Log(v, "onActivationEvent", ""), v.tempCommands)
                               EXCEPT !.tempCommands = <<>>],
                           Activation),
                      Persist)
    IN  With(s, Body)

(***************************************************************************)
(* registerCommands, lines 366-385.                                        *)
(***************************************************************************)
RegisterCommands(s) == PushDisposables(Log(s, "registerCommands", ""), CommandOrder)

(***************************************************************************)
(* onDidOpenTextDocument, lines 86-90.                                     *)
(***************************************************************************)
\* Mutant of OnDidOpenTextDocument: the language test is missing.
OnDidOpenTextDocument_AnyLanguage(s, document) ==
    OnActivationEvent(Log(s, "onDidOpenTextDocument", document))

OnDidOpenTextDocument(s, document) ==
    IF IsCOrCpp(document)
    THEN OnActivationEvent(Log(s, "onDidOpenTextDocument", document))
    ELSE Log(s, "onDidOpenTextDocument", document)

(***************************************************************************)
(* activate, lines 43-84.                                                  *)
(***************************************************************************)
\* Mutant of ActivateFastPath: the flag is not cleared after it is read.
ActivateFastPath_KeepsFlag(s) ==
    LET Load(v) ==
            [v EXCEPT !.activatedPreviously = "PersistentWorkspaceState",
                      !.trace = Append(@, <<"activatedPreviously.Value", Bool(v.persisted)>>)]
        Body(v) == IF v.persisted THEN RealActivation(Load(v)) ELSE Load(v)
    IN  With(s, Body)

\* lines 48-52: the persisted flag is loaded; if set, it is cleared and
\* full activation runs at once.
ActivateFastPath(s) ==
    LET Load(v) ==
            [v EXCEPT !.activatedPreviously = "PersistentWorkspaceState",
                      !.trace = Append(@, <<"activatedPreviously.Value", Bool(v.persisted)>>)]
        Body(v) ==
            IF v.persisted
            THEN RealActivation(Log([Load(v) EXCEPT !.persisted = FALSE],
                                    "activatedPreviously :=", "false"))
            ELSE Load(v)
    IN  With(s, Body)

\* Mutant of Activate: the temporary watcher is subscribed but not kept in
\* tempCommands.
Activate_NoWatcher(s, activationEventOccurred) ==
    LET Scan(v) ==
            IF activationEventOccurred THEN OnActivationEvent(v)
            ELSE IF Len(v.workspaceFolders) > 0 /\ v.configMarker THEN OnActivationEvent(v)
            ELSE IF \E d \in v.textDocuments : IsCOrCpp(d) THEN OnActivationEvent(v)
            ELSE v
        Register(v) ==
            IF Threw(v) THEN v
            ELSE With([RegisterCommands(v) EXCEPT !.live[Watcher] = @ + 1], Scan)
    IN  With(ActivateFastPath(Log([s EXCEPT !.activateCalls = @ + 1],
                                  "activate", Bool(activationEventOccurred))),
             Register)

Activate(s, activationEventOccurred) ==
    LET Scan(v) ==
            IF activationEventOccurred THEN OnActivationEvent(v)
            ELSE IF Len(v.workspaceFolders) > 0 /\ v.configMarker THEN OnActivationEvent(v)
            ELSE IF \E d \in v.textDocuments : IsCOrCpp(d) THEN OnActivationEvent(v)
            ELSE v
        Register(v) ==
            IF Threw(v) THEN v
            ELSE With([RegisterCommands(v)
                          EXCEPT !.live[Watcher] = @ + 1,
                                 !.tempCommands = Append(@, Watcher),
                                 !.trace = Append(@, <<"tempCommands.push", Watcher>>)],
                      Scan)
    IN  With(ActivateFastPath(Log([s EXCEPT !.activateCalls = @ + 1],
                                  "activate", Bool(activationEventOccurred))),
             Register)

(***************************************************************************)
(* getClients and getActiveClient, lines 689-701.                          *)
(***************************************************************************)
\* Mutant of GetClients: the test of realActivationOccurred is missing.
GetClients_Unguarded(s) == RealActivation(Log(s, "getClients", ""))

GetClients(s) ==
    IF ~s.realActivationOccurred
    THEN RealActivation(Log(s, "getClients", ""))
    ELSE Log(s, "getClients", "")

GetActiveClient(s) ==
    IF ~s.realActivationOccurred
    THEN RealActivation(Log(s, "getActiveClient", ""))
    ELSE Log(s, "getActiveClient", "")

(***************************************************************************)
(* onInterval, lines 357-360.                                              *)
(***************************************************************************)
OnInterval(s) ==
    IF s.clients = NoClients
    THEN Throw(Log(s, "onInterval", ""), "clients.ActiveClient")
    ELSE Log(Log(s, "onInterval", ""), "ActiveClient.onInterval", s.clients.ActiveClient)

(***************************************************************************)
(* onDidChangeSettings, lines 152-169.  `newUpdateChannel` is what the     *)
(* active client's settings tracker reports under "updateChannel":         *)
(* Undefined when the key is not in the diff.                              *)
(***************************************************************************)
UpdateChannels == {Undefined, "Default", "Insiders"}

\* clients.forEach(client => client.method()), in the order of the registry
ForEachClient(s, method) ==
    LET IsClient(n) == n \in s.clients.Names
        order == SelectSeq(<<"untitled", "f1", "f2">>, IsClient)
    IN  [s EXCEPT !.trace = @ \o [i \in 1..Len(order) |-> <<method, order[i]>>]]

\* Mutant of OnDidChangeSettings: the `return` after clearInterval is missing.
OnDidChangeSettings_NoReturn(s, newUpdateChannel) ==
    LET Channel(v) ==
            IF newUpdateChannel = Undefined THEN v
            ELSE IF newUpdateChannel = "Default"
            THEN Log(Log(v, "clearInterval", "insiderUpdateTimer"), "checkAndApplyUpdate", "")
            ELSE Log(v, "checkAndApplyUpdate", "")
        Body(v) ==
            IF v.clients = NoClients
            THEN Throw(Log(v, "onDidChangeSettings", newUpdateChannel), "clients.ActiveClient")
            ELSE With(ForEachClient(
                          [v EXCEPT !.trace = @ \o
                              << <<"onDidChangeSettings", newUpdateChannel>>,
                                 <<"ActiveClient.SettingsTracker", v.clients.ActiveClient>>,
                                 <<"getChangedSettings", newUpdateChannel>> >>],
                          "client.onDidChangeSettings"),
                      Channel)
    IN  With(s, Body)

OnDidChangeSettings(s, newUpdateChannel) ==
    LET Channel(v) ==
            IF newUpdateChannel = Undefined THEN v
            ELSE IF newUpdateChannel = "Default"
            THEN Log(v, "clearInterval", "insiderUpdateTimer")
            ELSE Log(v, "checkAndApplyUpdate", "")
        Body(v) ==
            IF v.clients = NoClients
            THEN Throw(Log(v, "onDidChangeSettings", newUpdateChannel), "clients.ActiveClient")
            ELSE With(ForEachClient(
                          [v EXCEPT !.trace = @ \o
                              << <<"onDidChangeSettings", newUpdateChannel>>,
                                 <<"ActiveClient.SettingsTracker", v.clients.ActiveClient>>,
                                 <<"getChangedSettings", newUpdateChannel>> >>],
                          "client.onDidChangeSettings"),
                      Channel)
    IN  With(s, Body)

(***************************************************************************)
(* deactivate, lines 674-683.                                              *)
(***************************************************************************)
Deactivate(s) ==
    LET DisposeUiAndClients(v) ==
            IF v.ui = Undefined THEN Throw(v, "ui.dispose")
            ELSE IF v.clients = NoClients THEN Throw(Log(v, "ui.dispose", ""), "clients.dispose")
            ELSE Log(Log(v, "ui.dispose", ""), "clients.dispose", "")
        DisposeConfigurations(v) ==
            With(DisposeAll(v, v.languageConfigurations), DisposeUiAndClients)
        DisposeSubscriptions(v) ==
            With(DisposeAll(v, v.disposables), DisposeConfigurations)
        Body(v) ==
            With([v EXCEPT !.deactivated = TRUE,
                           !.liveTimers = @ \ {v.intervalTimer},
                           !.trace = @ \o << <<"deactivate", "">>,
                                             <<"telemetry", "LanguageServerShutdown">>,
                                             <<"clearInterval", "intervalTimer">>,
                                             <<"clearInterval", "insiderUpdateTimer">> >>],
                 DisposeSubscriptions)
    IN  With(s, Body)

(***************************************************************************)
(* onDidChangeTextEditorSelection, lines 201-215.  `editor` is the         *)
(* document of event.textEditor.                                           *)
(***************************************************************************)
\* Mutant of OnDidChangeTextEditorSelection: the cursor is forwarded before
\* the document change is announced.
OnDidChangeTextEditorSelection_ForwardsFirst(s, editor) ==
    LET Body(v) ==
            IF editor = NoEditor \/ v.activeTextEditor = NoEditor
               \/ editor # v.activeTextEditor \/ ~IsCOrCpp(editor)
            THEN Log(v, "onDidChangeTextEditorSelection", editor)
            ELSE IF v.clients = NoClients
            THEN Throw(Log(v, "onDidChangeTextEditorSelection", editor),
                       "clients.activeDocumentChanged")
            ELSE IF v.activeDocument # editor
            THEN [v EXCEPT !.activeDocument = editor,
                           !.clients = ActiveDocumentChanged(@, editor),
                           !.trace = @ \o << <<"onDidChangeTextEditorSelection", editor>>,
                                             <<"ActiveClient.selectionChanged", editor>>,
                                             <<"activeDocument :=", editor>>,
                                             <<"clients.activeDocumentChanged", editor>>,
                                             <<"ui.activeDocumentChanged", "">> >>]
            ELSE [v EXCEPT !.trace = @ \o << <<"onDidChangeTextEditorSelection", editor>>,
                                             <<"ActiveClient.selectionChanged", editor>> >>]
    IN  With(s, Body)

OnDidChangeTextEditorSelection(s, editor) ==
    LET Body(v) ==
            IF editor = NoEditor \/ v.activeTextEditor = NoEditor
               \/ editor # v.activeTextEditor \/ ~IsCOrCpp(editor)
            THEN Log(v, "onDidChangeTextEditorSelection", editor)
            ELSE IF v.clients = NoClients
            THEN Throw(Log(v, "onDidChangeTextEditorSelection", editor),
                       "clients.activeDocumentChanged")
            ELSE IF v.activeDocument # editor
            THEN [v EXCEPT !.activeDocument = editor,
                           !.clients = ActiveDocumentChanged(@, editor),
                           !.trace = @ \o << <<"onDidChangeTextEditorSelection", editor>>,
                                             <<"activeDocument :=", editor>>,
                                             <<"clients.activeDocumentChanged", editor>>,
                                             <<"ui.activeDocumentChanged", "">>,
                                             <<"ActiveClient.selectionChanged", editor>> >>]
            ELSE [v EXCEPT !.trace = @ \o << <<"onDidChangeTextEditorSelection", editor>>,
                                             <<"ActiveClient.selectionChanged", editor>> >>]
    IN  With(s, Body)

(***************************************************************************)
(* onDidSaveTextDocument, lines 171-181.  `clangFormatOnSave` is the value *)
(* of that setting for the saved document.                                 *)
(***************************************************************************)
OnDidSaveTextDocument(s, doc, clangFormatOnSave) ==
    IF s.activeTextEditor = NoEditor \/ doc # s.activeTextEditor \/ ~IsCOrCpp(doc)
    THEN Log(s, "onDidSaveTextDocument", doc)
    ELSE IF ~s.saveMessageShown /\ clangFormatOnSave
    THEN [s EXCEPT !.saveMessageShown = TRUE,
                   !.trace = @ \o << <<"onDidSaveTextDocument", doc>>,
                                     <<"showInformationMessage", "formatOnSave">> >>]
    ELSE Log(s, "onDidSaveTextDocument", doc)

(***************************************************************************)
(* onDidChangeVisibleTextEditors, lines 217-219.                           *)
(***************************************************************************)
OnDidChangeVisibleTextEditors(s) ==
    IF s.clients = NoClients
    THEN Throw(Log(s, "onDidChangeVisibleTextEditors", ""), "clients.forEach")
    ELSE ForEachClient(Log(s, "onDidChangeVisibleTextEditors", ""),
                       "client.onDidChangeVisibleTextEditors")

(***************************************************************************)
(* isFolderOpen, lines 685-687.                                            *)
(***************************************************************************)
\* Mutant of IsFolderOpen: an empty folder list counts as a folder open
\* (`!== undefined` without the length test).
IsFolderOpen_IgnoresLength(s) == Len(s.workspaceFolders) >= 0

IsFolderOpen(s) == Len(s.workspaceFolders) > 0

\* A method call or property read on clients.ActiveClient.
OnActiveClient(s, method) ==
    LET Body(v) ==
            IF Threw(v) THEN v
            ELSE IF v.clients = NoClients THEN Throw(v, "clients.ActiveClient")
            ELSE Log(v, method, v.clients.ActiveClient)
    IN  With(s, Body)

(***************************************************************************)
(* selectClient, lines 454-470.  `pick` is the key ui.showWorkspaces       *)
(* resolves to ("" when the user cancels).                                 *)
(***************************************************************************)
\* Mutant of SelectClient: `clients.Count >= 1` in place of `=== 1`.
SelectClient_NeverAsks(s, pick) ==
    LET Body(v) ==
            IF Threw(v) THEN v
            ELSE IF v.clients = NoClients THEN Throw(v, "clients.Count")
            ELSE Log(v, "selectClient resolved", v.clients.ActiveClient)
    IN  With(s, Body)

SelectClient(s, pick) ==
    LET Body(v) ==
            IF Threw(v) THEN v
            ELSE IF v.clients = NoClients THEN Throw(v, "clients.Count")
            ELSE IF Count(v.clients) = 1
            THEN Log(v, "selectClient resolved", v.clients.ActiveClient)
            ELSE IF v.ui = Undefined THEN Throw(v, "ui.showWorkspaces")
            ELSE IF pick # "" /\ pick \in v.clients.Names
            THEN Log(Log(v, "ui.showWorkspaces", pick), "selectClient resolved", pick)
            ELSE Log(Log(v, "ui.showWorkspaces", pick),
                     "selectClient rejected", "client not found")
    IN  With(s, Body)

\* Mutant of ThenOnClient: a rejection falls back to the active client.
ThenOnClient_FallsBackToActive(s, method) ==
    LET Body(v) ==
            IF Threw(v) THEN v
            ELSE IF v.trace[Len(v.trace)][1] = "selectClient resolved"
            THEN Log(v, method, v.trace[Len(v.trace)][2])
            ELSE Log(v, method, v.clients.ActiveClient)
    IN  With(s, Body)

\* selectClient().then(client => client.method(), rejected => {})
ThenOnClient(s, method) ==
    LET Body(v) ==
            IF Threw(v) THEN v
            ELSE IF v.trace[Len(v.trace)][1] = "selectClient resolved"
            THEN Log(v, method, v.trace[Len(v.trace)][2])
            ELSE v
    IN  With(s, Body)

(***************************************************************************)
(* Command handlers, lines 387-604.                                        *)
(***************************************************************************)
OnNavigate(s) ==
    LET Body(v) ==
            IF Threw(v) \/ v.activeTextEditor = NoEditor THEN v
            ELSE OnActiveClient(v, "requestNavigationList")
    IN  With(OnActivationEvent(Log(s, "onNavigate", "")), Body)

OnGoToDeclaration(s) ==
    OnActiveClient(OnActivationEvent(Log(s, "onGoToDeclaration", "")), "requestGoToDeclaration")

OnPeekDeclaration(s) ==
    OnActiveClient(OnActivationEvent(Log(s, "onPeekDeclaration", "")), "requestGoToDeclaration")

OnSwitchHeaderSource(s) ==
    LET Body(v) ==
            IF Threw(v) \/ v.activeTextEditor = NoEditor THEN v
            ELSE IF ~IsCOrCpp(v.activeTextEditor) THEN v
            ELSE OnActiveClient(OnActiveClient(v, "RootPath"), "requestSwitchHeaderSource")
    IN  With(OnActivationEvent(Log(s, "onSwitchHeaderSource", "")), Body)

\* The continuation of lines 429-446, run when openTextDocument has resolved
\* with `document`.  `visible` is vscode.window.visibleTextEditors, each with
\* its document and its viewColumn; `active` is the index in it of
\* vscode.window.activeTextEditor, 0 when there is none.  The result is the
\* list of the columns showTextDocument is called with ("default": without
\* a column).
\* Mutant of ShowInVisible: the `!foundEditor` test is missing.
RECURSIVE ShowInVisible_EveryMatch(_, _, _)
ShowInVisible_EveryMatch(visible, document, foundEditor) ==
    IF visible = <<>> THEN <<>>
    ELSE IF Head(visible).document = document
    THEN <<Head(visible).viewColumn>> \o ShowInVisible_EveryMatch(Tail(visible), document, TRUE)
    ELSE ShowInVisible_EveryMatch(Tail(visible), document, foundEditor)

RECURSIVE ShowInVisible(_, _, _)
ShowInVisible(visible, document, foundEditor) ==
    IF visible = <<>> THEN <<>>
    ELSE IF Head(visible).document = document /\ ~foundEditor
    THEN <<Head(visible).viewColumn>> \o ShowInVisible(Tail(visible), document, TRUE)
    ELSE ShowInVisible(Tail(visible), document, foundEditor)

OnTargetOpened(document, visible, active) ==
    LET inLoop == ShowInVisible(visible, document, FALSE)
    IN  IF inLoop # <<>> THEN inLoop
        ELSE IF active # 0 THEN <<visible[active].viewColumn>>
        ELSE <<"default">>

OnResetDatabase(s, pick) ==
    ThenOnClient(SelectClient(OnActivationEvent(Log(s, "onResetDatabase", "")), pick),
                 "resetDatabase")

OnSelectConfiguration(s) ==
    LET Body(v) ==
            IF Threw(v) THEN v
            ELSE IF ~IsFolderOpen(v)
            THEN Log(v, "showInformationMessage", "Open a folder first to select a configuration")
            ELSE OnActiveClient(v, "handleConfigurationSelectCommand")
    IN  With(OnActivationEvent(Log(s, "onSelectConfiguration", "")), Body)

OnSelectConfigurationProvider(s, pick) ==
    LET Body(v) ==
            IF Threw(v) THEN v
            ELSE IF ~IsFolderOpen(v)
            THEN Log(v, "showInformationMessage",
                     "Open a folder first to select a configuration provider")
            ELSE ThenOnClient(SelectClient(v, pick), "handleConfigurationProviderSelectCommand")
    IN  With(OnActivationEvent(Log(s, "onSelectConfigurationProvider", "")), Body)

OnEditConfiguration(s, pick) ==
    LET Body(v) ==
            IF Threw(v) THEN v
            ELSE IF ~IsFolderOpen(v)
            THEN Log(v, "showInformationMessage", "Open a folder first to edit configurations")
            ELSE ThenOnClient(SelectClient(v, pick), "handleConfigurationEditCommand")
    IN  With(OnActivationEvent(Log(s, "onEditConfiguration", "")), Body)

OnAddToIncludePath(s) ==
    IF ~IsFolderOpen(s)
    THEN Log(Log(s, "onAddToIncludePath", ""),
             "showInformationMessage", "Open a folder first to add to includePath")
    ELSE OnActiveClient(Log(s, "onAddToIncludePath", ""), "handleAddToIncludePathCommand")

OnToggleSquiggles(s) ==
    LET Body(v) == IF Threw(v) THEN v ELSE Log(v, "settings.toggleSetting", "errorSquiggles")
    IN  With(OnActiveClient(OnActivationEvent(Log(s, "onToggleSquiggles", "")), "RootUri"), Body)

OnToggleIncludeFallback(s) ==
    LET Body(v) ==
            IF Threw(v) THEN v ELSE Log(v, "settings.toggleSetting", "intelliSenseEngineFallback")
    IN  With(OnActiveClient(OnActivationEvent(Log(s, "onToggleIncludeFallback", "")), "RootUri"),
             Body)

OnToggleDimInactiveRegions(s) ==
    LET Body(v) == IF Threw(v) THEN v ELSE Log(v, "settings.update", "dimInactiveRegions")
    IN  With(OnActiveClient(OnActivationEvent(Log(s, "onToggleDimInactiveRegions", "")),
                            "RootUri"),
             Body)

OnShowReleaseNotes(s) ==
    LET Body(v) == IF Threw(v) THEN v ELSE Log(v, "util.showReleaseNotes", "")
    IN  With(OnActivationEvent(Log(s, "onShowReleaseNotes", "")), Body)

OnPauseParsing(s, pick) ==
    ThenOnClient(SelectClient(OnActivationEvent(Log(s, "onPauseParsing", "")), pick),
                 "pauseParsing")

OnResumeParsing(s, pick) ==
    ThenOnClient(SelectClient(OnActivationEvent(Log(s, "onResumeParsing", "")), pick),
                 "resumeParsing")

OnShowParsingCommands(s, pick) ==
    ThenOnClient(SelectClient(OnActivationEvent(Log(s, "onShowParsingCommands", "")), pick),
                 "handleShowParsingCommands")

OnTakeSurvey(s) ==
    LET Body(v) ==
            IF Threw(v) THEN v
            ELSE Log(Log(v, "telemetry", "onTakeSurvey"), "executeCommand", "vscode.open")
    IN  With(OnActivationEvent(Log(s, "onTakeSurvey", "")), Body)

(***************************************************************************)
(* onToggleSnippets, lines 524-554.  The manifest is a record of its       *)
(* categories list and its contributes object (a function from the keys    *)
(* present to their values).                                               *)
(***************************************************************************)
SnippetsCatName == "Snippets"

SnippetsNode ==
    <<[language |-> "cpp", path |-> "./cpp_snippets.json"],
      [language |-> "c", path |-> "./cpp_snippets.json"]>>

IndexOf(q, x) ==
    IF \E i \in 1..Len(q) : q[i] = x
    THEN CHOOSE i \in 1..Len(q) : q[i] = x /\ \A j \in 1..(i - 1) : q[j] # x
    ELSE 0

Splice1(q, i) == [j \in 1..(Len(q) - 1) |-> IF j < i THEN q[j] ELSE q[j + 1]]

SetKey(o, k, v) == [x \in DOMAIN o \cup {k} |-> IF x = k THEN v ELSE o[x]]

DeleteKey(o, k) == [x \in DOMAIN o \ {k} |-> o[x]]

\* Mutant of ToggleManifest: the removal leaves contributes.snippets behind.
ToggleManifest_KeepsNode(m) ==
    IF IndexOf(m.categories, SnippetsCatName) = 0
    THEN [categories |-> Append(m.categories, SnippetsCatName),
          contributes |-> SetKey(m.contributes, "snippets", SnippetsNode)]
    ELSE [categories |-> Splice1(m.categories, IndexOf(m.categories, SnippetsCatName)),
          contributes |-> m.contributes]

ToggleManifest(m) ==
    IF IndexOf(m.categories, SnippetsCatName) = 0
    THEN [categories |-> Append(m.categories, SnippetsCatName),
          contributes |-> SetKey(m.contributes, "snippets", SnippetsNode)]
    ELSE [categories |-> Splice1(m.categories, IndexOf(m.categories, SnippetsCatName)),
          contributes |-> DeleteKey(m.contributes, "snippets")]

OnToggleSnippets(s) ==
    LET Body(v) ==
            IF Threw(v) THEN v
            ELSE [v EXCEPT !.packageJson = ToggleManifest(@),
                           !.toggles = @ + 1,
                           !.trace = Append(@, <<"fs.writeFile",
                               IF IndexOf(v.packageJson.categories, SnippetsCatName) = 0
                               THEN "Reload Window to finish enabling C++ snippets"
                               ELSE "Reload Window to finish disabling C++ snippets">>)]
    IN  With(OnActivationEvent(Log(s, "onToggleSnippets", "")), Body)

\* The handler registerCommands binds to each command identifier.
Handler(s, c, pick) ==
    CASE c = "C_Cpp.Navigate" -> OnNavigate(s)
      [] c = "C_Cpp.GoToDeclaration" -> OnGoToDeclaration(s)
      [] c = "C_Cpp.PeekDeclaration" -> OnPeekDeclaration(s)
      [] c = "C_Cpp.SwitchHeaderSource" -> OnSwitchHeaderSource(s)
      [] c = "C_Cpp.ResetDatabase" -> OnResetDatabase(s, pick)
      [] c = "C_Cpp.ConfigurationSelect" -> OnSelectConfiguration(s)
      [] c = "C_Cpp.ConfigurationProviderSelect" -> OnSelectConfigurationProvider(s, pick)
      [] c = "C_Cpp.ConfigurationEdit" -> OnEditConfiguration(s, pick)
      [] c = "C_Cpp.AddToIncludePath" -> OnAddToIncludePath(s)
      [] c = "C_Cpp.ToggleErrorSquiggles" -> OnToggleSquiggles(s)
      [] c = "C_Cpp.ToggleSnippets" -> OnToggleSnippets(s)
      [] c = "C_Cpp.ToggleIncludeFallback" -> OnToggleIncludeFallback(s)
      [] c = "C_Cpp.ToggleDimInactiveRegions" -> OnToggleDimInactiveRegions(s)
      [] c = "C_Cpp.ShowReleaseNotes" -> OnShowReleaseNotes(s)
      [] c = "C_Cpp.PauseParsing" -> OnPauseParsing(s, pick)
      [] c = "C_Cpp.ResumeParsing" -> OnResumeParsing(s, pick)
      [] c = "C_Cpp.ShowParsingCommands" -> OnShowParsingCommands(s, pick)
      [] c = "C_Cpp.TakeSurvey" -> OnTakeSurvey(s)

UsesSelectClient ==
    {"C_Cpp.ResetDatabase", "C_Cpp.ConfigurationProviderSelect", "C_Cpp.ConfigurationEdit",
     "C_Cpp.PauseParsing", "C_Cpp.ResumeParsing", "C_Cpp.ShowParsingCommands"}

(***************************************************************************)
(* checkAndApplyUpdate, lines 272-355.  Strings are sequences of UTF-16    *)
(* code units, so that indexOf, substr and the relational operators work   *)
(* on them the way they do in the code.                                    *)
(***************************************************************************)
Dash == <<45>>

Insiders == <<105, 110, 115, 105, 100, 101, 114, 115>>

Master == <<109, 97, 115, 116, 101, 114>>

V120 == <<49, 46, 50, 46, 48>>

V130 == <<49, 46, 51, 46, 48>>

V190 == <<49, 46, 57, 46, 48>>

V1100 == <<49, 46, 49, 48, 46, 48>>

\* x < y on two strings (ECMAScript abstract relational comparison): false
\* when y is a prefix of x, true when x is a proper prefix of y, otherwise
\* decided by the code units at the first index where they differ.
IsPrefix(p, q) == Len(p) <= Len(q) /\ \A i \in 1..Len(p) : p[i] = q[i]

JsStringLess(x, y) ==
    IF IsPrefix(y, x) THEN FALSE
    ELSE IF IsPrefix(x, y) THEN TRUE
    ELSE LET k == CHOOSE i \in 1..Len(x) :
                      /\ i <= Len(y)
                      /\ x[i] # y[i]
                      /\ \A j \in 1..(i - 1) : x[j] = y[j]
         IN  x[k] < y[k]

\* lines 275-285: the version with its suffix stripped, or <<>> for null
\* (null and the empty string are both falsy at line 286).
CurrentVersion(version) ==
    LET dashOffset == IndexOf(version, Dash[1])
    IN  IF dashOffset = 0 THEN version
        ELSE IF SubSeq(version, dashOffset + 1, Len(version)) # Insiders THEN <<>>
        ELSE SubSeq(version, 1, dashOffset - 1)

\* Mutant of VersionNotOlder: `>` in place of `>=`.
VersionNotOlder_Strict(version, latestName) == JsStringLess(latestName, version)

\* line 301: the check returns when this holds.
VersionNotOlder(version, latestName) == ~JsStringLess(version, latestName)

\* lines 308-319
VsixName(platform, architecture) ==
    IF platform = "linux" /\ architecture = "x86_64" THEN "cpptools-linux.vsix"
    ELSE IF platform = "linux" /\ architecture = "x86" THEN "cpptools-linux32.vsix"
    ELSE ""

\* downloadFileToDestination, lines 222-257.  `responses` are the outcomes of
\* the successive requests: a status code, or "error" when the request or
\* the response stream fails.  A 301 or 302 is followed by a request to the
\* new location; the result is the list of what happens, ending in
\* "resolved" or "rejected".  When the written file closes, the promise is
\* resolved and then `this.updateSettingsAsync()` is called with `this`
\* undefined: a TypeError no one catches, after the resolution.
\* Mutant of DownloadFileToDestination: the test of the status code against
\* 200 is missing.
RECURSIVE DownloadFileToDestination_AnyStatus(_)
DownloadFileToDestination_AnyStatus(responses) ==
    IF responses = <<>> \/ Head(responses) = "error" THEN <<"rejected">>
    ELSE IF Head(responses) \in {"301", "302"}
    THEN <<"redirect">> \o DownloadFileToDestination_AnyStatus(Tail(responses))
    ELSE <<"resolved", "uncaught TypeError">>

RECURSIVE DownloadFileToDestination(_)
DownloadFileToDestination(responses) ==
    IF responses = <<>> \/ Head(responses) = "error" THEN <<"rejected">>
    ELSE IF Head(responses) \in {"301", "302"}
    THEN <<"redirect">> \o DownloadFileToDestination(Tail(responses))
    ELSE IF Head(responses) # "200" THEN <<"rejected">>
    ELSE <<"resolved", "uncaught TypeError">>

\* The steps one check executes, in order, for the inputs `in`.
CheckAndApplyUpdate(in) ==
    LET version == CurrentVersion(in.version)
        vsixName == VsixName(in.platform, in.architecture)
        fetch == DownloadFileToDestination(in.fetch)
        download == DownloadFileToDestination(in.download)
        t1 == <<"version">>
        t2 == Append(t1, "download releases.json") \o fetch
        t3 == Append(t2, "parseJsonAtPath")
        t4 == Append(t3, "version gate")
        t5 == Append(t4, "GetPlatformInformation")
        t6 == Append(t5, "find asset")
        t7 == Append(t6, "download vsix") \o download
        t8 == Append(t7, "vsCodeCommandFile")
    IN  IF version = <<>> THEN t1
        ELSE IF "rejected" \in Range(fetch) THEN t2
        ELSE IF in.manifest = "unparsable" THEN Append(t3, "TypeError")
        ELSE IF in.manifest = "empty" THEN t3
        ELSE IF VersionNotOlder(version, in.latestName) THEN t4
        ELSE IF vsixName = "" THEN t5
        ELSE IF in.asset = "absent" THEN Append(t6, "TypeError")
        ELSE IF in.asset = "no url" THEN t6
        ELSE IF "rejected" \in Range(download) THEN t7
        ELSE Append(t8, "exec")

(***************************************************************************)
(* Crash reporting on macOS, lines 606-672: the callbacks that run after   *)
(* reportMacCrashes has returned.  They work on the record `crash`; a job  *)
(* is one file name that passed the watcher's filters, with its timer, the *)
(* reads issued for it, the outcomes the host delivered and the "MacCrash" *)
(* telemetry events logged for it.                                         *)
(***************************************************************************)
CrashFilenames ==
    {"Microsoft.VSCode.CPP.1.crash", "Microsoft.VSCode.CPP.2.crash", "Code Helper.crash"}

\* filename.startsWith("Microsoft.VSCode.CPP.")
CrashPrefixed(filename) ==
    filename \in {"Microsoft.VSCode.CPP.1.crash", "Microsoft.VSCode.CPP.2.crash"}

\* The callback of fs.stat, lines 610-647.  `watchThrows` says whether
\* fs.watch throws (the watcher limit is hit); the exception is swallowed.
OnCrashFolderStat(c, err, watchThrows) ==
    IF err
    THEN [c EXCEPT !.stats = @ - 1, !.events = Append(@, "fs.stat: err.code")]
    ELSE IF watchThrows THEN [c EXCEPT !.stats = @ - 1]
    ELSE [c EXCEPT !.stats = @ - 1, !.watchers = @ + 1]

\* The callback of fs.watch, lines 621-643.
OnCrashFolderChange(c, event, filename) ==
    IF event # "rename" THEN c
    ELSE IF filename = c.prevCrashFile THEN c
    ELSE IF ~CrashPrefixed(filename) THEN [c EXCEPT !.prevCrashFile = filename]
    ELSE [c EXCEPT !.prevCrashFile = filename,
                   !.jobs = Append(@, [file |-> filename, state |-> "setTimeout",
                                       callback |-> Undefined, reads |-> 0,
                                       outcomes |-> <<>>, events |-> <<>>])]

\* The callback of setTimeout, lines 633-642: the first read is issued.
OnCrashTimeout(job) ==
    [job EXCEPT !.state = "readFile", !.callback = "anonymous", !.reads = @ + 1]

\* handleCrashFileRead, lines 651-672: one event either way, with the error
\* code or with the extract of the crashing thread's call stack.
HandleCrashFileRead(job, err) ==
    [job EXCEPT !.state = "done",
                !.callback = Undefined,
                !.events = Append(@, IF err THEN "readFile: err.code"
                                            ELSE "CrashingThreadCallStack")]

\* Mutant of OnCrashFileRead: the failure of the first read is reported and
\* the read is issued again.
OnCrashFileRead_ReportsAndRetries(job, err) ==
    IF err
    THEN [HandleCrashFileRead(job, err)
             EXCEPT !.state = "readFile", !.reads = @ + 1, !.callback = "handleCrashFileRead"]
    ELSE HandleCrashFileRead(job, err)

\* The callback of the first fs.readFile, lines 634-641.
OnCrashFileRead(job, err) ==
    IF err
    THEN [job EXCEPT !.reads = @ + 1, !.callback = "handleCrashFileRead"]
    ELSE HandleCrashFileRead(job, err)

(***************************************************************************)
(* Initial states: the module-level initialisers of lines 27-38, in every  *)
(* workspace the host can start the extension in.                          *)
(***************************************************************************)
SeqsUpTo(S, n) == UNION {[1..k -> S] : k \in 0..n}

DefaultManifest ==
    [categories |-> <<"Programming Languages">>,
     contributes |-> [k \in {"commands"} |-> <<[language |-> "", path |-> "C_Cpp.Navigate"]>>]]

IdleUpdate ==
    [version |-> <<>>, latestName |-> <<>>, fetch |-> <<>>, manifest |-> "unparsable",
     platform |-> "linux", architecture |-> "x86_64", asset |-> "absent",
     download |-> <<>>, steps |-> <<>>]

\* No crash reporting started.  The platform is the one the main
\* specification runs on; the crash-log specification draws it.
IdleCrash ==
    [platform |-> "linux", prevCrashFile |-> Undefined, stats |-> 0, watchers |-> 0,
     jobs |-> <<>>, events |-> <<>>]

IdleSwitch ==
    [pending |-> FALSE, opened |-> FALSE, target |-> Undefined, visible |-> <<>>,
     active |-> 0, shown |-> <<>>]

ModuleInit ==
    /\ activatedPreviously = Undefined
    /\ realActivationOccurred = FALSE
    /\ tempCommands = <<>>
    /\ clients = NoClients
    /\ ui = Undefined
    /\ activeDocument = Undefined
    /\ disposables = <<>>
    /\ languageConfigurations = <<>>
    /\ intervalTimer = 0
    /\ live = [r \in Resources |-> 0]
    /\ liveTimers = {}
    /\ activateCalls = 0
    /\ realActivations = 0
    /\ timersStarted = 0
    /\ deactivated = FALSE
    /\ trace = <<>>
    /\ toggles = 0
    /\ saveMessageShown = FALSE

Init ==
    /\ ModuleInit
    /\ persisted \in BOOLEAN
    /\ workspaceFolders \in {<<>>, <<"f1">>, <<"f1", "f2">>}
    /\ configMarker \in {b \in BOOLEAN : b => Len(workspaceFolders) > 0}
    /\ textDocuments \in SUBSET Documents
    /\ activeTextEditor \in textDocuments \cup {NoEditor}
    /\ packageJson = DefaultManifest
    /\ packageJson0 = packageJson
    /\ update = IdleUpdate
    /\ switch = IdleSwitch
    /\ crash = IdleCrash

(***************************************************************************)
(* Actions.  The host calls an exported function or delivers an event      *)
(* while no handler is running; the handler runs to completion and leaves  *)
(* its trace; Return hands control back to the host.                       *)
(***************************************************************************)
Idle == trace = <<>> /\ ~deactivated

Return ==
    /\ trace # <<>>
    /\ ~deactivated
    /\ trace' = <<>>
    /\ UNCHANGED <<persisted, activatedPreviously, realActivationOccurred, tempCommands,
                   clients, ui, activeDocument, disposables, languageConfigurations,
                   intervalTimer, workspaceFolders, configMarker, textDocuments,
                   activeTextEditor, live, liveTimers, activateCalls, realActivations,
                   timersStarted, deactivated, packageJson, packageJson0, toggles,
                   saveMessageShown, crash, update, switch>>

CallActivate ==
    /\ Idle
    /\ activateCalls < MaxActivate
    /\ \E activationEventOccurred \in BOOLEAN : Apply(Activate(St, activationEventOccurred))
    /\ UNCHANGED <<update, switch>>

CallGetClients ==
    /\ Idle
    /\ Apply(GetClients(St))
    /\ UNCHANGED <<update, switch>>

CallGetActiveClient ==
    /\ Idle
    /\ Apply(GetActiveClient(St))
    /\ UNCHANGED <<update, switch>>

\* A document is opened; the temporary watcher, while subscribed, is told.
HostOpenDocument ==
    /\ Idle
    /\ \E d \in Documents \ textDocuments :
          Apply(IF live[Watcher] > 0
                THEN OnDidOpenTextDocument([St EXCEPT !.textDocuments = @ \cup {d}], d)
                ELSE [St EXCEPT !.textDocuments = @ \cup {d}])
    /\ UNCHANGED <<update, switch>>

\* The focus moves to another editor, or to none.  The host is known to
\* omit the callback at times (line 209): `delivered` says whether it came.
HostChangeActiveEditor ==
    /\ Idle
    /\ \E d \in (textDocuments \cup {NoEditor}) \ {activeTextEditor}, delivered \in BOOLEAN :
          Apply(IF delivered /\ live["onDidChangeActiveTextEditor"] > 0
                THEN OnDidChangeActiveTextEditor([St EXCEPT !.activeTextEditor = d], d)
                ELSE [St EXCEPT !.activeTextEditor = d])
    /\ UNCHANGED <<update, switch>>

\* The selection changes in some open editor, active or not.
HostChangeSelection ==
    /\ Idle
    /\ live["onDidChangeTextEditorSelection"] > 0
    /\ \E d \in textDocuments : Apply(OnDidChangeTextEditorSelection(St, d))
    /\ UNCHANGED <<update, switch>>

\* The configuration changes; the active client's tracker reports the new
\* update channel, if that key changed.
HostChangeSettings ==
    /\ Idle
    /\ live["onDidChangeConfiguration"] > 0
    /\ \E newUpdateChannel \in UpdateChannels : Apply(OnDidChangeSettings(St, newUpdateChannel))
    /\ UNCHANGED <<update, switch>>

\* The active or another open document is saved.
HostSaveDocument ==
    /\ Idle
    /\ live["onDidSaveTextDocument"] > 0
    /\ \E doc \in textDocuments, clangFormatOnSave \in BOOLEAN :
          Apply(OnDidSaveTextDocument(St, doc, clangFormatOnSave))
    /\ UNCHANGED <<update, switch>>

\* The set of visible editors changes.
HostChangeVisibleEditors ==
    /\ Idle
    /\ live["onDidChangeVisibleTextEditors"] > 0
    /\ Apply(OnDidChangeVisibleTextEditors(St))
    /\ UNCHANGED <<update, switch>>

\* The 2.5 s interval timer fires.
Tick ==
    /\ Idle
    /\ liveTimers # {}
    /\ Apply(OnInterval(St))
    /\ UNCHANGED <<update, switch>>

Picks == FolderNames \cup {"", "f3"}

InvokeCommand ==
    /\ Idle
    /\ \E c \in CommandIds :
          /\ live[c] > 0
          /\ c = "C_Cpp.ToggleSnippets" => toggles < MaxToggles
          /\ \E pick \in (IF c \in UsesSelectClient THEN Picks ELSE {""}) :
                Apply(Handler(St, c, pick))
    /\ UNCHANGED <<update, switch>>

CallDeactivate ==
    /\ Idle
    /\ activateCalls > 0
    /\ Apply(Deactivate(St))
    /\ UNCHANGED <<update, switch>>

Next ==
    \/ CallActivate
    \/ CallGetClients
    \/ CallGetActiveClient
    \/ HostOpenDocument
    \/ HostChangeActiveEditor
    \/ HostChangeSelection
    \/ HostChangeSettings
    \/ HostSaveDocument
    \/ HostChangeVisibleEditors
    \/ Tick
    \/ InvokeCommand
    \/ CallDeactivate
    \/ Return

Spec == Init /\ [][Next]_vars

(***************************************************************************)
(* The snippets toggle on every manifest of the bounded family.            *)
(***************************************************************************)
CustomNode == <<[language |-> "cpp", path |-> "./my_snippets.json"]>>

Manifests ==
    {[categories |-> c, contributes |-> o] :
        c \in SeqsUpTo({"Linters", SnippetsCatName}, MaxCategories),
        o \in UNION {[d -> {SnippetsNode, CustomNode}] : d \in SUBSET {"snippets", "commands"}}}

InitSnippets ==
    /\ ModuleInit
    /\ persisted = FALSE
    /\ workspaceFolders = <<>>
    /\ configMarker = FALSE
    /\ textDocuments = {}
    /\ activeTextEditor = NoEditor
    /\ packageJson \in Manifests
    /\ packageJson0 = packageJson
    /\ update = IdleUpdate
    /\ switch = IdleSwitch
    /\ crash = IdleCrash

InvokeToggleSnippets ==
    /\ Idle
    /\ live["C_Cpp.ToggleSnippets"] > 0
    /\ toggles < MaxToggles
    /\ Apply(Handler(St, "C_Cpp.ToggleSnippets", ""))
    /\ UNCHANGED <<update, switch>>

NextSnippets ==
    \/ CallActivate
    \/ InvokeToggleSnippets
    \/ Return

SpecSnippets == InitSnippets /\ [][NextSnippets]_vars

(***************************************************************************)
(* One self-update check on every input of the bounded family.             *)
(***************************************************************************)
VersionChars == {46, 49, 57}

VersionBases == SeqsUpTo(VersionChars, MaxVersionLen) \cup {V120, V130, V190, V1100}

Versions ==
    VersionBases
        \cup {b \o Dash \o Insiders : b \in {<<>>, V120, V130, V190, V1100}}
        \cup {b \o Dash \o Master : b \in {V120, V130}}

Machines ==
    {<<"linux", "x86_64">>, <<"linux", "x86">>, <<"linux", "arm">>, <<"darwin", "x86_64">>}

\* What the server answers to a download: at most MaxRedirects redirections,
\* then a final answer.
Responses ==
    {r \o <<f>> : r \in SeqsUpTo({"302"}, MaxRedirects), f \in {"200", "404", "error"}}

InitUpdate ==
    /\ ModuleInit
    /\ persisted = FALSE
    /\ workspaceFolders = <<>>
    /\ configMarker = FALSE
    /\ textDocuments = {}
    /\ activeTextEditor = NoEditor
    /\ packageJson = DefaultManifest
    /\ packageJson0 = packageJson
    /\ \E v \in Versions, n \in VersionBases :
          update = [IdleUpdate EXCEPT !.version = v, !.latestName = n]
    /\ switch = IdleSwitch
    /\ crash = IdleCrash

SelfUpdateCheck ==
    /\ update.steps = <<>>
    /\ \E fetch \in Responses, manifest \in {"unparsable", "empty", "releases"},
          machine \in Machines, asset \in {"absent", "no url", "present"},
          download \in Responses :
          LET in == [update EXCEPT !.fetch = fetch, !.manifest = manifest,
                                   !.platform = machine[1], !.architecture = machine[2],
                                   !.asset = asset, !.download = download]
          IN  update' = [in EXCEPT !.steps = CheckAndApplyUpdate(in)]
    /\ UNCHANGED <<persisted, activatedPreviously, realActivationOccurred, tempCommands,
                   clients, ui, activeDocument, disposables, languageConfigurations,
                   intervalTimer, workspaceFolders, configMarker, textDocuments,
                   activeTextEditor, live, liveTimers, activateCalls, realActivations,
                   timersStarted, deactivated, trace, packageJson, packageJson0, toggles,
                   saveMessageShown, crash, switch>>

NextUpdate == SelfUpdateCheck

SpecUpdate == InitUpdate /\ [][NextUpdate]_vars

(***************************************************************************)
(* Switch header/source: the command, and the continuation that runs when  *)
(* the client has answered and the host has opened the target document,    *)
(* for every arrangement of visible editors of the bounded family.         *)
(***************************************************************************)
Columns == {"1", "2"}

VisibleEditors(docs) ==
    SeqsUpTo({[document |-> d, viewColumn |-> c] : d \in docs, c \in Columns}, MaxVisible)

InitSwitch ==
    /\ ModuleInit
    /\ persisted = FALSE
    /\ workspaceFolders = <<>>
    /\ configMarker = FALSE
    /\ textDocuments \in SUBSET Documents
    /\ activeTextEditor \in textDocuments \cup {NoEditor}
    /\ packageJson = DefaultManifest
    /\ packageJson0 = packageJson
    /\ update = IdleUpdate
    /\ switch = IdleSwitch
    /\ crash = IdleCrash

InvokeSwitchHeaderSource ==
    /\ Idle
    /\ live["C_Cpp.SwitchHeaderSource"] > 0
    /\ LET after == Handler(St, "C_Cpp.SwitchHeaderSource", "")
       IN  /\ Apply(after)
           /\ switch' = [IdleSwitch EXCEPT
                             !.pending = after.trace[Len(after.trace)][1]
                                             = "requestSwitchHeaderSource"]
    /\ UNCHANGED update

\* The client answers with `target`; openTextDocument resolves (or rejects,
\* and then nothing more happens); the continuation looks at the editors
\* visible at that time.  The editors show open documents, and the active
\* one is among them.
TargetReturned ==
    /\ Idle
    /\ switch.pending
    /\ \E target \in Documents, opened \in BOOLEAN :
          \E visible \in VisibleEditors(textDocuments) :
             \E active \in 0..Len(visible) :
                /\ active = 0 <=> activeTextEditor = NoEditor
                /\ active # 0 => visible[active].document = activeTextEditor
                /\ switch' = [pending |-> FALSE, opened |-> opened, target |-> target,
                              visible |-> visible, active |-> active,
                              shown |-> IF opened
                                        THEN OnTargetOpened(target, visible, active)
                                        ELSE <<>>]
    /\ UNCHANGED <<persisted, activatedPreviously, realActivationOccurred, tempCommands,
                   clients, ui, activeDocument, disposables, languageConfigurations,
                   intervalTimer, workspaceFolders, configMarker, textDocuments,
                   activeTextEditor, live, liveTimers, activateCalls, realActivations,
                   timersStarted, deactivated, trace, packageJson, packageJson0, toggles,
                   saveMessageShown, crash, update>>

NextSwitch ==
    \/ CallActivate
    \/ HostChangeActiveEditor
    \/ InvokeSwitchHeaderSource
    \/ TargetReturned
    \/ Return

SpecSwitch == InitSwitch /\ [][NextSwitch]_vars

(***************************************************************************)
(* Crash reporting: activation on either platform, then the callbacks of   *)
(* fs.stat, fs.watch, setTimeout and fs.readFile in any order the host can *)
(* deliver them, each read failing or succeeding.                          *)
(***************************************************************************)
ExceptCrash ==
    <<persisted, activatedPreviously, realActivationOccurred, tempCommands,
      clients, ui, activeDocument, disposables, languageConfigurations,
      intervalTimer, workspaceFolders, configMarker, textDocuments,
      activeTextEditor, live, liveTimers, activateCalls, realActivations,
      timersStarted, deactivated, trace, packageJson, packageJson0,
      toggles, saveMessageShown, update, switch>>

InitCrash ==
    /\ ModuleInit
    /\ persisted \in BOOLEAN
    /\ workspaceFolders = <<>>
    /\ configMarker = FALSE
    /\ textDocuments = {}
    /\ activeTextEditor = NoEditor
    /\ packageJson = DefaultManifest
    /\ packageJson0 = packageJson
    /\ update = IdleUpdate
    /\ switch = IdleSwitch
    /\ \E platform \in {"darwin", "linux"} : crash = [IdleCrash EXCEPT !.platform = platform]

CrashFolderStatReturns ==
    /\ Idle
    /\ crash.stats > 0
    /\ \E err \in BOOLEAN, watchThrows \in BOOLEAN :
          crash' = OnCrashFolderStat(crash, err, watchThrows)
    /\ UNCHANGED ExceptCrash

\* A watcher reports a change in the crash folder.
CrashFolderChanges ==
    /\ Idle
    /\ crash.watchers > 0
    /\ Len(crash.jobs) < MaxCrashFiles
    /\ \E event \in {"rename", "change"}, filename \in CrashFilenames :
          crash' = OnCrashFolderChange(crash, event, filename)
    /\ UNCHANGED ExceptCrash

\* The 5 s timer of a job fires.
CrashTimeoutFires ==
    /\ Idle
    /\ \E i \in 1..Len(crash.jobs) :
          /\ crash.jobs[i].state = "setTimeout"
          /\ crash' = [crash EXCEPT !.jobs[i] = OnCrashTimeout(@)]
    /\ UNCHANGED ExceptCrash

\* A read in flight completes, with an error or with the file's text, and
\* the callback it was issued with runs.
CrashFileReadReturns ==
    /\ Idle
    /\ \E i \in 1..Len(crash.jobs), err \in BOOLEAN :
          /\ crash.jobs[i].state = "readFile"
          /\ LET delivered == [crash.jobs[i] EXCEPT !.outcomes = Append(@, err)]
             IN  crash' = [crash EXCEPT !.jobs[i] =
                              IF delivered.callback = "anonymous"
                              THEN OnCrashFileRead(delivered, err)
                              ELSE HandleCrashFileRead(delivered, err)]
    /\ UNCHANGED ExceptCrash

NextCrash ==
    \/ CallActivate
    \/ CrashFolderStatReturns
    \/ CrashFolderChanges
    \/ CrashTimeoutFires
    \/ CrashFileReadReturns
    \/ Return

SpecCrash == InitCrash /\ [][NextCrash]_vars

(***************************************************************************)
(* Properties.                                                             *)
(***************************************************************************)
CommandHandlers ==
    {"onNavigate", "onGoToDeclaration", "onPeekDeclaration", "onSwitchHeaderSource",
     "onResetDatabase", "onSelectConfiguration", "onSelectConfigurationProvider",
     "onEditConfiguration", "onAddToIncludePath", "onToggleSquiggles", "onToggleSnippets",
     "onToggleIncludeFallback", "onToggleDimInactiveRegions", "onShowReleaseNotes",
     "onPauseParsing", "onResumeParsing", "onShowParsingCommands", "onTakeSurvey"}

EventHandlers ==
    {"onDidOpenTextDocument", "onDidChangeActiveTextEditor", "onDidChangeTextEditorSelection",
     "onDidChangeSettings", "onInterval", "onActivationEvent"}

Running(handler) == trace # <<>> /\ trace[1][1] = handler

\* C1: however often activate() is called and whichever qualifying events
\* arrive, full activation runs exactly once: one client registry is
\* constructed and one heartbeat timer is started.
C1_ActivationIdempotence ==
    /\ realActivations <= 1
    /\ timersStarted <= 1
    /\ realActivationOccurred => realActivations = 1 /\ timersStarted = 1

\* C2: when activate() reads the persisted flag as true, the next thing it
\* does is clear the flag, and the next after that is full activation, before
\* the commands and the temporary watcher are even registered and before any
\* handler runs; the flag is true afterwards only if an activation event was
\* handled later in the same call.
C2_PersistedFastPath ==
    (Running("activate") /\ trace[2] = <<"activatedPreviously.Value", "true">>) =>
        /\ trace[3] = <<"activatedPreviously :=", "false">>
        /\ trace[4] = <<"realActivation", "">>
        /\ realActivationOccurred
        /\ \A i \in 1..Len(trace) :
              trace[i][1] \in CommandHandlers \cup EventHandlers
                  \cup {"registerCommands", "tempCommands.push"} => i > 4
        /\ persisted => Has(trace, "onActivationEvent")

C2_FastPathTaken ==
    /\ Running("activate")
    /\ trace[2] = <<"activatedPreviously.Value", "true">>
    /\ ~persisted

\* C3: with exactly one registered client selectClient resolves to the active
\* client and the picker is not shown; with two or more the picker is shown
\* and selectClient resolves to the client keyed by the picked name, and
\* rejects when the picked name is empty or is no key of the registry.
C3_SelectClient ==
    /\ \A i \in 1..Len(trace) :
          trace[i][1] \in {"selectClient resolved", "selectClient rejected"} =>
              IF Count(clients) = 1
              THEN /\ trace[i] = <<"selectClient resolved", clients.ActiveClient>>
                   /\ ~Has(trace, "ui.showWorkspaces")
              ELSE /\ Count(clients) >= 2
                   /\ trace[i - 1][1] = "ui.showWorkspaces"
                   /\ IF trace[i - 1][2] # "" /\ trace[i - 1][2] \in clients.Names
                      THEN trace[i] = <<"selectClient resolved", trace[i - 1][2]>>
                      ELSE trace[i][1] = "selectClient rejected"
    /\ \A h \in {"onResetDatabase", "onPauseParsing", "onResumeParsing",
                 "onShowParsingCommands"} :
          Running(h) => Has(trace, "selectClient resolved") \/ Has(trace, "selectClient rejected")

C3_PickedOtherThanActive ==
    /\ Running("onResetDatabase")
    /\ Has(trace, "ui.showWorkspaces")
    /\ Has(trace, "selectClient resolved")
    /\ trace[Len(trace)] = <<"resetDatabase", "f2">>
    /\ clients.ActiveClient = "f1"

\* C4: a selection-changed event for the active editor, showing c/cpp
\* document b: if the tracker holds something else, the handler sets the
\* tracker to b, announces the document change to the clients and to the UI,
\* and only then forwards the cursor; if the tracker holds b already, it only
\* forwards the cursor.
C4_SelectionTieBreak ==
    [][\A b \in Documents :
           (/\ trace = <<>>
            /\ trace' # <<>>
            /\ trace'[1] = <<"onDidChangeTextEditorSelection", b>>
            /\ activeTextEditor = b
            /\ IsCOrCpp(b))
           => IF activeDocument # b
              THEN /\ trace' = << <<"onDidChangeTextEditorSelection", b>>,
                                  <<"activeDocument :=", b>>,
                                  <<"clients.activeDocumentChanged", b>>,
                                  <<"ui.activeDocumentChanged", "">>,
                                  <<"ActiveClient.selectionChanged", b>> >>
                   /\ activeDocument' = b
              ELSE /\ trace' = << <<"onDidChangeTextEditorSelection", b>>,
                                  <<"ActiveClient.selectionChanged", b>> >>
                   /\ activeDocument' = b]_vars

C4_TieBreakTaken ==
    /\ Running("onDidChangeTextEditorSelection")
    /\ trace[1][2] = "b.c"
    /\ Has(trace, "clients.activeDocumentChanged")
    /\ "a.cpp" \in textDocuments

\* C5 as claimed: two toggles on a manifest whose categories lack "Snippets"
\* restore categories and contributes, whatever contributes held.
C5_RoundTripAnyContributes ==
    (toggles = 2 /\ IndexOf(packageJson0.categories, SnippetsCatName) = 0) =>
        packageJson = packageJson0

\* C5 as amended: two toggles on a manifest whose categories lack "Snippets"
\* and whose contributes has no snippets entry restore categories and
\* contributes.
C5_RoundTrip ==
    (/\ toggles = 2
     /\ IndexOf(packageJson0.categories, SnippetsCatName) = 0
     /\ "snippets" \notin DOMAIN packageJson0.contributes) =>
        packageJson = packageJson0

C5_ToggledTwice ==
    /\ toggles = 2
     /\ packageJson0.categories = <<"Linters">>
     /\ DOMAIN packageJson0.contributes = {"commands"}
     /\ packageJson = packageJson0

\* C6: the check passes the version comparison exactly when the current
\* version, build suffix stripped, is strictly smaller than the latest
\* release's name in the lexicographic order of code units; "1.2.0" against
\* "1.3.0" passes, "1.3.0" against "1.3.0" does not.
RECURSIVE LexLess(_, _)
LexLess(x, y) ==
    IF y = <<>> THEN FALSE
    ELSE IF x = <<>> THEN TRUE
    ELSE IF Head(x) # Head(y) THEN Head(x) < Head(y)
    ELSE LexLess(Tail(x), Tail(y))

BeforeDash(v) ==
    SubSeq(v, 1, Cardinality({i \in 1..Len(v) : \A j \in 1..i : v[j] # Dash[1]}))

ReachedGate == "version gate" \in Range(update.steps)

PassedGate == "GetPlatformInformation" \in Range(update.steps)

C6_VersionGate ==
    ReachedGate =>
        /\ PassedGate <=> LexLess(BeforeDash(update.version), update.latestName)
        /\ BeforeDash(update.version) = V120 /\ update.latestName = V130 => PassedGate
        /\ BeforeDash(update.version) = V130 /\ update.latestName = V130 => ~PassedGate

C6_OlderVersionPasses ==
    /\ update.version = V120
    /\ update.latestName = V130
    /\ PassedGate

\* C7: every command handler calls the activation guard before anything else.
C7_CommandsEnsureActivation ==
    (trace # <<>> /\ trace[1][1] \in CommandHandlers) =>
        Len(trace) >= 2 /\ trace[2] = <<"onActivationEvent", "">>

\* C8 as claimed: once activate() has been called, the temporary watcher set
\* is empty exactly when full activation has occurred.
C8_WatchersEmptyIffActivated ==
    activateCalls > 0 => (Len(tempCommands) = 0 <=> realActivationOccurred)

\* C8 as amended: once activate() has been called, an empty temporary watcher
\* set implies that full activation has occurred.
C8_WatchersEmptyImpliesActivated ==
    activateCalls > 0 => (Len(tempCommands) = 0 => realActivationOccurred)

C8_ActivatedByEvent ==
    /\ activateCalls > 0
    /\ Len(tempCommands) = 0
    /\ realActivationOccurred
    /\ trace = <<>>

\* C9: after full activation, once the handler of an active-editor-changed
\* event, or of a selection-changed event of the focused editor, has run,
\* the tracker is empty exactly when the focused editor does not show a c/cpp
\* document, whether or not the host delivered every active-editor-changed
\* callback before.
C9_TrackerMatchesFocus ==
    (/\ realActivationOccurred
     /\ \/ Running("onDidChangeActiveTextEditor")
        \/ Running("onDidChangeTextEditorSelection") /\ trace[1][2] = activeTextEditor) =>
        (activeDocument \in {"", Undefined}
            <=> (activeTextEditor = NoEditor \/ ~IsCOrCpp(activeTextEditor)))

\* C10: when deactivate() reaches clients.dispose(), every subscription and
\* timer this layer created has been released.
C10_ShutdownReleasesEverything ==
    Has(trace, "clients.dispose") =>
        /\ \A r \in Resources : live[r] = 0
        /\ liveTimers = {}

\* C11: within one run of the settings-changed handler, every client's
\* onDidChangeSettings notification comes before the active client's settings
\* diff is read for the update-channel key and before the self-update timer
\* is cancelled or a self-update check is started.
C11_ClientsNotifiedFirst ==
    Running("onDidChangeSettings") =>
        \A i, j \in 1..Len(trace) :
            (/\ trace[i][1] = "client.onDidChangeSettings"
             /\ trace[j][1] \in {"getChangedSettings", "clearInterval", "checkAndApplyUpdate"})
                => i < j

StepOrder ==
    <<"version", "download releases.json", "parseJsonAtPath", "version gate",
      "GetPlatformInformation", "find asset", "download vsix", "vsCodeCommandFile", "exec">>

Ran(step) == step \in Range(update.steps)

Answered200(responses) == responses # <<>> /\ responses[Len(responses)] = "200"

MainSteps == SelectSeq(update.steps, LAMBDA x : x \in Range(StepOrder))

C13_AbortOnFailure ==
    update.steps # <<>> =>
        /\ MainSteps = SubSeq(StepOrder, 1, Len(MainSteps))
        /\ Range(update.steps) \subseteq
              Range(StepOrder) \cup {"redirect", "resolved", "rejected", "TypeError",
                                     "uncaught TypeError"}
        /\ LET suffix == IndexOf(update.version, Dash[1])
           IN  (suffix # 0 /\ SubSeq(update.version, suffix + 1, Len(update.version)) # Insiders)
                   => ~Ran("download releases.json")
        /\ ~Answered200(update.fetch) => ~Ran("parseJsonAtPath")
        /\ update.manifest # "releases" => ~Ran("version gate")
        /\ ~LexLess(BeforeDash(update.version), update.latestName)
              => ~Ran("GetPlatformInformation")
        /\ <<update.platform, update.architecture>>
              \notin {<<"linux", "x86_64">>, <<"linux", "x86">>} => ~Ran("find asset")
        /\ update.asset # "present" => ~Ran("download vsix")
        /\ ~Answered200(update.download) => ~Ran("vsCodeCommandFile") /\ ~Ran("exec")
        /\ Ran("exec") =>
              /\ update.steps[Len(update.steps)] = "exec"
              /\ \E i, j \in 1..Len(update.steps) :
                    /\ update.steps[i] = "download vsix"
                    /\ update.steps[j] = "resolved"
                    /\ i < j

C13_DownloadRejected ==
    /\ Ran("download vsix")
    /\ update.download = <<"302", "404">>
    /\ update.steps[Len(update.steps)] = "rejected"

\* C14: activate(false) with the persisted flag false, no configuration
\* marker and no c/cpp document open leaves the extension dormant; from a
\* dormant state, full activation is brought about only by the opening of a
\* c/cpp document, by a command, by getClients/getActiveClient or by another
\* call of activate; a document of another language being opened changes
\* nothing; a c/cpp document being opened runs full activation and disposes
\* every temporary watcher.
Dormant == activateCalls > 0 /\ ~realActivationOccurred /\ trace = <<>>

C14_Dormancy ==
    [][/\ (/\ trace = <<>>
           /\ trace' # <<>>
           /\ trace'[1] = <<"activate", "false">>
           /\ ~persisted
           /\ ~realActivationOccurred
           /\ ~configMarker
           /\ \A d \in textDocuments : ~IsCOrCpp(d))
          => ~realActivationOccurred' /\ ~Has(trace', "realActivation")
                /\ Len(tempCommands') > 0
       /\ (Dormant /\ realActivationOccurred')
          => \/ trace'[1][1] = "onDidOpenTextDocument" /\ IsCOrCpp(trace'[1][2])
             \/ trace'[1][1] \in CommandHandlers \cup {"getClients", "getActiveClient", "activate"}
       /\ \A d \in Documents :
             (Dormant /\ trace' # <<>> /\ trace'[1] = <<"onDidOpenTextDocument", d>>)
             => IF IsCOrCpp(d)
                THEN /\ realActivationOccurred'
                     /\ realActivations' = 1
                     /\ Has(trace', "realActivation")
                     /\ tempCommands' = <<>>
                     /\ live'[Watcher] = 0
                ELSE /\ ~realActivationOccurred'
                     /\ trace' = << <<"onDidOpenTextDocument", d>> >>
                     /\ tempCommands' = tempCommands
                     /\ live' = live]_vars

C14_WokenByDocument ==
    /\ Running("onDidOpenTextDocument")
    /\ trace[1][2] = "b.c"
    /\ "r.md" \in textDocuments
    /\ Has(trace, "realActivation")
    /\ tempCommands = <<>>

\* C15 as claimed: by whichever path full activation was performed, the
\* persisted flag is true once the activation has completed.
C15_ActivationPersists ==
    (trace = <<>> /\ realActivationOccurred) => persisted

\* C15 as amended: whenever onActivationEvent has found a temporary watcher
\* pending and disposed it (activation event, scan match, c/cpp document
\* opened, command), the persisted flag is true when the handler completes,
\* whether or not this call ran full activation; a call of activate() that
\* took the persisted fast path and met no activation event leaves the flag
\* false.
C15_ActivationEventPersists ==
    /\ <<"dispose", Watcher>> \in Range(trace) =>
          /\ persisted
          /\ trace[Len(trace)] = <<"activatedPreviously :=", "true">>
             \/ \E h \in CommandHandlers : Running(h)
    /\ (/\ Running("activate")
        /\ trace[2] = <<"activatedPreviously.Value", "true">>
        /\ ~Has(trace, "onActivationEvent")) => ~persisted

C15_PersistedAfterFastPath ==
    /\ Running("onDidOpenTextDocument")
    /\ <<"dispose", Watcher>> \in Range(trace)
    /\ ~Has(trace, "realActivation")
    /\ persisted

\* C16: when selectClient rejects in one of the six commands that use it,
\* the rejection is the last thing that happens: the command calls no method
\* of any client and nothing is shown to the user.
SelectClientHandlers ==
    {"onResetDatabase", "onSelectConfigurationProvider", "onEditConfiguration",
     "onPauseParsing", "onResumeParsing", "onShowParsingCommands"}

SelectedClientMethods ==
    {"resetDatabase", "handleConfigurationProviderSelectCommand",
     "handleConfigurationEditCommand", "pauseParsing", "resumeParsing",
     "handleShowParsingCommands"}

C16_RejectionIsSilent ==
    Has(trace, "selectClient rejected") =>
        /\ \E h \in SelectClientHandlers : Running(h)
        /\ trace[Len(trace)] = <<"selectClient rejected", "client not found">>
        /\ \A i \in 1..Len(trace) :
              trace[i][1] \notin SelectedClientMethods
                  \cup {"showInformationMessage", "showErrorMessage", "TypeError"}

C16_UnknownNamePicked ==
    /\ Running("onEditConfiguration")
    /\ <<"ui.showWorkspaces", "f3">> \in Range(trace)
    /\ Has(trace, "selectClient rejected")

\* C17: with no workspace folder open, each of configuration select,
\* configuration provider select, configuration edit and add-to-include-path
\* ends by showing its one informational message: the command calls no
\* client method and does not consult the client picker.
NoFolderMessage ==
    [onSelectConfiguration |-> "Open a folder first to select a configuration",
     onSelectConfigurationProvider |-> "Open a folder first to select a configuration provider",
     onEditConfiguration |-> "Open a folder first to edit configurations",
     onAddToIncludePath |-> "Open a folder first to add to includePath"]

C17_NoFolderPrecondition ==
    \A h \in DOMAIN NoFolderMessage :
        (Running(h) /\ workspaceFolders = <<>>) =>
            /\ trace[Len(trace)] = <<"showInformationMessage", NoFolderMessage[h]>>
            /\ Cardinality({i \in 1..Len(trace) : trace[i][1] = "showInformationMessage"}) = 1
            /\ \A i \in 1..Len(trace) :
                  trace[i][1] \notin SelectedClientMethods
                      \cup {"handleConfigurationSelectCommand", "handleAddToIncludePathCommand",
                            "ui.showWorkspaces", "selectClient resolved",
                            "selectClient rejected", "TypeError"}

C17_MessageWhileDormant ==
    /\ Running("onAddToIncludePath")
    /\ workspaceFolders = <<>>
    /\ ~realActivationOccurred
    /\ Len(trace) = 2

\* C18: the active-editor-changed handler, called by the host for the new
\* active editor: when there is none or its document is not c/cpp, the
\* tracker is cleared, the UI is notified and no client is told anything;
\* otherwise the tracker becomes the document of the new active editor, the
\* clients are told of the document change, then the active client gets the
\* cursor position, then the UI is notified.
C18_ActiveEditorChanged ==
    Running("onDidChangeActiveTextEditor") =>
        LET editor == trace[1][2]
        IN  /\ editor = activeTextEditor
            /\ IF editor = NoEditor \/ ~IsCOrCpp(editor)
               THEN /\ activeDocument = ""
                    /\ trace = << <<"onDidChangeActiveTextEditor", editor>>,
                                  <<"activeDocument :=", "">>,
                                  <<"ui.activeDocumentChanged", "">> >>
               ELSE /\ activeDocument = editor
                    /\ clients.ActiveClient \in clients.Names
                    /\ trace = << <<"onDidChangeActiveTextEditor", editor>>,
                                  <<"activeDocument :=", editor>>,
                                  <<"clients.activeDocumentChanged", editor>>,
                                  <<"ActiveClient.selectionChanged", editor>>,
                                  <<"ui.activeDocumentChanged", "">> >>

C18_FocusLeftCpp ==
    /\ Running("onDidChangeActiveTextEditor")
    /\ trace[1][2] = "r.md"
    /\ "a.cpp" \in textDocuments
    /\ activeDocument = ""

\* C19: when onActivationEvent runs full activation, every temporary watcher
\* has been disposed and the watcher set emptied before; with the set empty
\* no watcher is subscribed, and a command that then enters onActivationEvent
\* finds a no-op: no full activation and no write of the persisted flag.
C19_WatchersDisposedFirst ==
    [][/\ \A i, j \in 1..Len(trace') :
             (/\ trace'[i][1] = "onActivationEvent"
              /\ trace'[j][1] = "realActivation"
              /\ i < j)
             => /\ trace'[i + 1] = <<"dispose", Watcher>>
                /\ \A k \in 1..Len(trace') : trace'[k] = <<"dispose", Watcher>> => k < j
                /\ tempCommands' = <<>>
       /\ tempCommands' = <<>> => live'[Watcher] = 0
       /\ (/\ trace = <<>>
           /\ trace' # <<>>
           /\ activateCalls > 0
           /\ tempCommands = <<>>
           /\ trace'[1][1] \in CommandHandlers \cup {"onDidOpenTextDocument"})
          => /\ realActivations' = realActivations
             /\ ~Has(trace', "realActivation")
             /\ ~Has(trace', "activatedPreviously :=")
             /\ ~Has(trace', "dispose")
             /\ persisted' = persisted
             /\ tempCommands' = <<>>]_vars

C19_ReenteredAsNoOp ==
    /\ trace = << <<"onShowReleaseNotes", "">>,
                  <<"onActivationEvent", "">>,
                  <<"util.showReleaseNotes", "">> >>
    /\ tempCommands = <<>>
    /\ realActivations = 1
    /\ persisted

\* C20: once the client has returned a target and the document is opened,
\* showTextDocument is called exactly once: in the column of the first
\* visible editor that shows the document, else in the active editor's
\* column, else without a column; with no active editor, or one that shows
\* no c/cpp document, the command asks the client for nothing.
C20_SwitchColumn ==
    /\ switch.opened =>
          LET showing == {i \in 1..Len(switch.visible) :
                              switch.visible[i].document = switch.target}
          IN  /\ Len(switch.shown) = 1
              /\ switch.shown[1] =
                    IF showing # {}
                    THEN switch.visible[CHOOSE i \in showing :
                                            \A j \in showing : i <= j].viewColumn
                    ELSE IF switch.active # 0
                    THEN switch.visible[switch.active].viewColumn
                    ELSE "default"
    /\ (Running("onSwitchHeaderSource")
           /\ (activeTextEditor = NoEditor \/ ~IsCOrCpp(activeTextEditor)))
          => /\ ~switch.pending
             /\ ~Has(trace, "RootPath")
             /\ ~Has(trace, "requestSwitchHeaderSource")
    /\ (Running("onSwitchHeaderSource") /\ switch.pending)
          => trace[Len(trace)][1] = "requestSwitchHeaderSource"

C20_ReusedFirstColumn ==
    /\ switch.opened
    /\ Len(switch.visible) = 2
    /\ switch.visible[1].document = switch.target
    /\ switch.visible[2].document = switch.target
    /\ switch.visible[1].viewColumn = "2"
    /\ switch.active = 2
    /\ switch.shown = <<"2">>

\* C21: in a session with a single call of activate(), the persisted flag is
\* true after a step exactly when onActivationEvent was entered in that step
\* or the flag was already true after activate(); activate() itself leaves
\* the flag true exactly when it entered onActivationEvent, so a call that
\* only took the persisted fast path leaves it false; and with the flag
\* false at its start, activate() runs full activation only by way of
\* onActivationEvent.
C21_FlagTracksActivationEvents ==
    [][/\ (activateCalls = 0 /\ activateCalls' = 1)
          => /\ persisted' <=> Has(trace', "onActivationEvent")
             /\ trace'[2] = <<"activatedPreviously.Value", Bool(persisted)>>
             /\ (~persisted /\ Has(trace', "realActivation"))
                   => /\ Has(trace', "onActivationEvent")
                      /\ First(trace', "onActivationEvent") < First(trace', "realActivation")
       /\ (activateCalls = 1 /\ activateCalls' = 1 /\ trace' # <<>>)
          => (persisted' <=> (persisted \/ Has(trace', "onActivationEvent")))]_vars

C21_FastPathOnlySession ==
    /\ activateCalls = 1
    /\ Running("getClients")
    /\ realActivations = 1
    /\ Len(tempCommands) = 1
    /\ ~persisted

\* C22: in a session that starts with its single call of activate(), full
\* activation runs at most once: activate() runs it at most once, and every
\* later document-open event, command, getClients() or getActiveClient()
\* runs it exactly when it has not occurred yet, and then once.
C22_SingleEntryIdempotence ==
    [][/\ (activateCalls = 0 /\ ~realActivationOccurred /\ activateCalls' = 1)
          => /\ realActivations' <= realActivations + 1
             /\ timersStarted' = realActivations'
             /\ realActivationOccurred' <=> realActivations' = realActivations + 1
       /\ (activateCalls = 1 /\ activateCalls' = 1)
          => /\ realActivationOccurred => realActivationOccurred'
             /\ realActivations' =
                   realActivations + (IF ~realActivationOccurred /\ realActivationOccurred'
                                      THEN 1 ELSE 0)
             /\ timersStarted' - timersStarted = realActivations' - realActivations
             /\ Cardinality({i \in 1..Len(trace') : trace'[i][1] = "realActivation"})
                   = realActivations' - realActivations]_vars

C22_SecondTriggerIsNoOp ==
    /\ activateCalls = 1
    /\ trace = << <<"getActiveClient", "">> >>
    /\ realActivations = 1
    /\ tempCommands = <<>>

RouterHandlers ==
    {"onDidChangeSettings", "onDidSaveTextDocument", "onDidChangeActiveTextEditor",
     "onDidChangeTextEditorSelection", "onDidChangeVisibleTextEditors"}

\* C23: the assertion of onDidChangeActiveTextEditor never fails; whenever
\* one of the five event-router handlers or the heartbeat tick has run, the
\* registry and the UI were constructed and no dereference of them threw;
\* while a router subscription or a heartbeat timer is live the registry is
\* constructed; and within a handler the subscriptions, the timer and the
\* synthesized active-editor-changed call all come after the construction of
\* the registry.
C23_RegistryForEventHandlers ==
    /\ [](/\ ~Has(trace, "assert failed")
          /\ \A h \in RouterHandlers \cup {"onInterval"} :
                Running(h) => clients # NoClients /\ ui # Undefined /\ ~Has(trace, "TypeError")
          /\ (\/ liveTimers # {}
              \/ \E r \in Range(ListenerOrder) : live[r] > 0)
                => clients # NoClients /\ ui # Undefined
          /\ \A i \in 2..Len(trace) :
                trace[i][1] \in RouterHandlers \cup {"setInterval"}
                   => \E j \in 1..(i - 1) : trace[j][1] = "new ClientCollection")
    /\ [][(\/ timersStarted' > timersStarted
           \/ \E r \in Range(ListenerOrder) : live'[r] > live[r])
             => /\ Has(trace', "new ClientCollection")
                /\ Has(trace', "onRegisterCustomConfigurationProvider")
                /\ First(trace', "new ClientCollection")
                      < First(trace', "onRegisterCustomConfigurationProvider")
                /\ clients' # NoClients]_vars

C23_SynthesizedCallServed ==
    /\ Has(trace, "realActivation")
    /\ Has(trace, "clients.activeDocumentChanged")
    /\ \E i \in 2..Len(trace) : trace[i][1] = "onDidChangeActiveTextEditor"
    /\ activeDocument = activeTextEditor

\* C24: once activate() has been called, an empty temporary-watcher set
\* means that full activation has occurred and that the registry and the UI
\* are constructed; and whenever a command handler that calls
\* onActivationEvent has run, whether the guard returned early or activated,
\* the registry and the UI are constructed and no dereference of them threw.
C24_RegistryForCommands ==
    /\ (activateCalls > 0 /\ tempCommands = <<>>)
          => realActivationOccurred /\ clients # NoClients /\ ui # Undefined
    /\ \A h \in CommandHandlers :
          (Running(h) /\ Has(trace, "onActivationEvent"))
             => /\ realActivationOccurred
                /\ tempCommands = <<>>
                /\ clients # NoClients
                /\ ui # Undefined
                /\ ~Has(trace, "TypeError")

C24_EarlyReturnThenDereference ==
    /\ Running("onToggleSquiggles")
    /\ Len(trace) = 4
    /\ trace[2] = <<"onActivationEvent", "">>
    /\ trace[3][2] = clients.ActiveClient
    /\ activateCalls = 1

\* C25: every file that passed the watcher's filters has the crash-log name
\* prefix, is read at most twice, and has at most one "MacCrash" event; the
\* second read is issued only after the first failed; nothing is reported
\* while a read or the timer is pending; and once its last read has
\* returned, the file was read once if the first read succeeded and twice
\* if it failed, and exactly one event reports the outcome of the last read.
C25_ReadRetriedOnce ==
    \A i \in 1..Len(crash.jobs) :
        LET job == crash.jobs[i]
        IN  /\ CrashPrefixed(job.file)
            /\ job.reads <= 2
            /\ Len(job.events) <= 1
            /\ job.reads = 2 => (job.outcomes # <<>> /\ job.outcomes[1])
            /\ job.state # "done"
                  => /\ job.events = <<>>
                     /\ job.reads = Len(job.outcomes) + (IF job.state = "readFile" THEN 1 ELSE 0)
            /\ job.state = "done"
                  => /\ job.reads = Len(job.outcomes)
                     /\ job.reads = (IF job.outcomes[1] THEN 2 ELSE 1)
                     /\ job.events = << IF job.outcomes[job.reads]
                                        THEN "readFile: err.code"
                                        ELSE "CrashingThreadCallStack" >>

C25_RetrySucceeded ==
    \E i \in 1..Len(crash.jobs) :
        /\ crash.jobs[i].state = "done"
        /\ crash.jobs[i].outcomes = <<TRUE, FALSE>>
        /\ crash.jobs[i].events = <<"CrashingThreadCallStack">>

====
